---- MODULE Spec2Model ----
(***************************************************************************)
(* Model of the orchestration core of gsaaad/ag1-researchagent.            *)
(*                                                                         *)
(* Part I  (Spec, FairSpec): the StatusPoller loop of                      *)
(*   src/Condition_Checker_Google_ADK.py: the session state, the two       *)
(*   custom stages ProgressIncrementer and ConditionChecker, and the       *)
(*   LoopAgent that re-runs them until an event escalates or the           *)
(*   iteration cap is reached.                                             *)
(***************************************************************************)
EXTENDS Integers, Sequences, FiniteSets, TLC

(***************************************************************************)
(* Program constants.                                                      *)
(***************************************************************************)
TARGET_PROGRESS == 100

INCREMENT_AMOUNT == 17

\* the upper clamp of ProgressIncrementer: min(current + increment, 100)
ProgressClamp == 100

(***************************************************************************)
(* Bounds of the model (not program constants).                            *)
(***************************************************************************)
\* largest max_iterations a run is configured with
MaxIterBound == 8

\* the increment_amount values a run is configured with
IncrementChoices == {0, 10, INCREMENT_AMOUNT, 25, 34, 50, 100}

\* the max_iterations values a run is configured with
MaxIterChoices == 1..MaxIterBound

VARIABLES
    state,            \* context.session.state: the State Store of the run
    increment_amount, \* ProgressIncrementer.increment_amount
    target_progress,  \* ConditionChecker.target_progress
    max_iterations,   \* LoopAgent.max_iterations
    times_looped,     \* passes the LoopAgent has completed without escalation
    next_stage,       \* index in sub_agents of the stage the loop runs next
    loop_state,       \* "RUNNING", "ESCALATED" or "EXHAUSTED"
    events,           \* the events forwarded to the caller, in order
    passes,           \* passes of the stage list started so far
    seed_state        \* the state the session was created with

loopVars == <<state, increment_amount, target_progress, max_iterations,
              times_looped, next_stage, loop_state, events, passes, seed_state>>

VARIABLES
    agent_logger,     \* the global AgentLogger of the trends pipeline, or None
    session_state,    \* the session state of the trends pipeline run
    stage_idx,        \* index in trends_pipeline.sub_agents of the next stage
    run_pc,           \* run_pipeline: "idle", "consuming", "complete", "faulted"
    current_agent,    \* run_pipeline's current_agent
    yielded,          \* the events the runner forwarded to run_pipeline
    invoked,          \* the stage invocations so far and how each one went
    clock             \* datetime.now()

pipeVars == <<agent_logger, session_state, stage_idx, run_pc, current_agent,
              yielded, invoked, clock>>

VARIABLES
    logger_calls      \* the AgentLogger methods called so far, in call order

VARIABLES
    logger_objects,   \* the AgentLogger objects the process has created
    agent_logger_ref, \* the object the global agent_logger refers to, 0: None
    own_logger,       \* for each run_pipeline execution, the object it created
    handlers,         \* logging.getLogger(name).handlers, counted per run id
    disk,             \* the files in logs/, per run id: trace lines and JSON
    task_pc,          \* where each run_pipeline execution stands
    call_targets,     \* for each logger call of a run, the object it reached
    sessions          \* session_service: per session id, the runs that wrote it

concVars == <<logger_objects, agent_logger_ref, own_logger, handlers, disk,
              task_pc, call_targets, sessions>>

VARIABLES
    chat_lists,       \* the list objects ResearchAgent.chat_history was bound to
    chat_history,     \* the list object self.chat_history refers to
    agent_calls,      \* the ResearchAgent methods called so far, in call order
    run_result,       \* what the last ResearchAgent.run returned
    worker,           \* the GUI's AgentWorker thread and where it stands
    input_enabled,    \* input_field and send_button are enabled
    clear_pending     \* Clear was confirmed and no query was sent since

raVars == <<chat_lists, chat_history, agent_calls, run_result, worker,
            input_enabled, clear_pending>>

procVars == <<logger_calls, concVars, raVars>>

vars == <<loopVars, pipeVars, procVars>>

(***************************************************************************)
(* State Store.                                                            *)
(***************************************************************************)
\* a read that forgets the caller's default
GetWithoutDefault(s, k, d) == IF k \in DOMAIN s THEN s[k] ELSE 0 - 1

\* dict.get(key, default)
Get(s, k, d) == IF k \in DOMAIN s THEN s[k] ELSE d

\* a store whose assignment forgets the other keys
PutForgetsOthers(s, k, v) == [x \in {k} |-> v]

\* dict[key] = value
Put(s, k, v) == [x \in (DOMAIN s) \cup {k} |-> IF x = k THEN v ELSE s[x]]

Min(a, b) == IF a <= b THEN a ELSE b

\* a stage list with the checker first
sub_agents_swapped == <<"ConditionChecker", "ProgressIncrementer">>

\* sub_agents of status_poller, in list order
sub_agents == <<"ProgressIncrementer", "ConditionChecker">>

(***************************************************************************)
(* ProgressIncrementer._run_async_impl                                     *)
(***************************************************************************)
\* an incrementer that does not clamp the new progress
IncrementerStateUnclamped(s, inc) ==
    LET current_progress == Get(s, "progress", 0)
        iteration        == Get(s, "iteration", 0)
    IN  Put(Put(s, "progress", current_progress + inc), "iteration", iteration + 1)

\* an incrementer that does not count its invocation
IncrementerStateNotCounting(s, inc) ==
    LET current_progress == Get(s, "progress", 0)
        iteration        == Get(s, "iteration", 0)
        new_progress     == Min(current_progress + inc, ProgressClamp)
    IN  Put(Put(s, "progress", new_progress), "iteration", iteration)

\* the state the stage leaves behind
IncrementerState(s, inc) ==
    LET current_progress == Get(s, "progress", 0)
        iteration        == Get(s, "iteration", 0)
        new_progress     == Min(current_progress + inc, ProgressClamp)
        new_iteration    == iteration + 1
    IN  Put(Put(s, "progress", new_progress), "iteration", new_iteration)

\* the one event the stage yields: it reports the values just written and
\* carries no actions (escalate defaults to false)
IncrementerEvent(s, inc, pass) ==
    LET current_progress == Get(s, "progress", 0)
        iteration        == Get(s, "iteration", 0)
    IN  [author    |-> "ProgressIncrementer",
         escalate  |-> FALSE,
         progress  |-> Min(current_progress + inc, ProgressClamp),
         iteration |-> iteration + 1,
         pass      |-> pass]

(***************************************************************************)
(* ConditionChecker._run_async_impl                                        *)
(***************************************************************************)
\* a checker whose comparison is reversed
ConditionMetReversed(progress, target) == progress <= target

\* progress >= self.target_progress
ConditionMet(progress, target) == progress >= target

\* the one event the stage yields: it reports the progress and iteration it
\* read from the state, with escalate set when the target is reached
CheckerEvent(s, target, pass) ==
    LET progress  == Get(s, "progress", 0)
        iteration == Get(s, "iteration", 0)
    IN  [author    |-> "ConditionChecker",
         escalate  |-> ConditionMet(progress, target),
         progress  |-> progress,
         iteration |-> iteration,
         pass      |-> pass]

(***************************************************************************)
(* LoopAgent: after the events of a sub-agent have been forwarded, an      *)
(* escalating event ends the loop; otherwise, after the last sub-agent of  *)
(* the list, the pass is counted and the cap is tested.                    *)
(***************************************************************************)
\* a loop that tests the cap one pass late
LoopStateAfterLateCap(ev, idx, looped, cap) ==
    IF ev.escalate THEN "ESCALATED"
    ELSE IF idx = Len(sub_agents) /\ looped >= cap THEN "EXHAUSTED"
    ELSE "RUNNING"

\* a loop that does not look at the escalate flag
LoopStateAfterIgnoringEscalate(ev, idx, looped, cap) ==
    IF idx = Len(sub_agents) /\ looped + 1 >= cap THEN "EXHAUSTED"
    ELSE "RUNNING"

\* a loop that tests the cap before the escalate flag
LoopStateAfterCapFirst(ev, idx, looped, cap) ==
    IF idx = Len(sub_agents) /\ looped + 1 >= cap THEN "EXHAUSTED"
    ELSE IF ev.escalate THEN "ESCALATED"
    ELSE "RUNNING"

\* a loop without an iteration cap
LoopStateAfterUncapped(ev, idx, looped, cap) ==
    IF ev.escalate THEN "ESCALATED" ELSE "RUNNING"

LoopStateAfter(ev, idx, looped, cap) ==
    IF ev.escalate THEN "ESCALATED"
    ELSE IF idx = Len(sub_agents) /\ looped + 1 >= cap THEN "EXHAUSTED"
    ELSE "RUNNING"

TimesLoopedAfter(ev, idx, looped) ==
    IF ~ev.escalate /\ idx = Len(sub_agents) THEN looped + 1 ELSE looped

NextStageAfter(idx) == IF idx = Len(sub_agents) THEN 1 ELSE idx + 1

\* main(): create_session(state={"progress": 0, "iteration": 0})
SeedState == [progress |-> 0, iteration |-> 0]

\* the trends pipeline before run_pipeline is called
PipelineIdle ==
    /\ agent_logger = "None"
    /\ session_state = <<>>
    /\ stage_idx = 1
    /\ run_pc = "idle"
    /\ current_agent = ""
    /\ yielded = <<>>
    /\ invoked = <<>>
    /\ clock = 0

\* the run_pipeline executions of one process
Runs == {"A", "B"}

\* no result yet
NoResult == [returned |-> FALSE]

\* self.worker = None
NoWorker == [pc |-> "none", query |-> "", ref |-> 0, result |-> NoResult]

\* ResearchAgent.__init__ and ResearchAssistantGUI.__init__: an empty
\* chat_history list, no worker, the input enabled
ResearchIdle ==
    /\ chat_lists = << <<>> >>
    /\ chat_history = 1
    /\ agent_calls = <<>>
    /\ run_result = NoResult
    /\ worker = NoWorker
    /\ input_enabled = TRUE
    /\ clear_pending = FALSE

\* the process before any AgentLogger method has been called
ProcIdle ==
    /\ ResearchIdle
    /\ logger_calls = <<>>
    /\ logger_objects = <<>>
    /\ agent_logger_ref = 0
    /\ own_logger = [r \in Runs |-> 0]
    /\ handlers = <<>>
    /\ disk = <<>>
    /\ task_pc = [r \in Runs |-> [pc |-> "start", stages |-> 0]]
    /\ call_targets = <<>>
    /\ sessions = <<>>

\* the StatusPoller loop as the module builds it, before a run starts
LoopIdle(incs, caps) ==
    /\ state = SeedState
    /\ seed_state = SeedState
    /\ increment_amount \in incs
    /\ target_progress = TARGET_PROGRESS
    /\ max_iterations \in caps
    /\ times_looped = 0
    /\ next_stage = 1
    /\ loop_state = "RUNNING"
    /\ events = <<>>
    /\ passes = 0

Init ==
    /\ LoopIdle(IncrementChoices, MaxIterChoices)
    /\ PipelineIdle
    /\ ProcIdle

\* one invocation of ProgressIncrementer by the loop
RunProgressIncrementer ==
    /\ loop_state = "RUNNING"
    /\ sub_agents[next_stage] = "ProgressIncrementer"
    /\ LET ev == IncrementerEvent(state, increment_amount, times_looped + 1)
       IN  /\ state' = IncrementerState(state, increment_amount)
           /\ events' = Append(events, ev)
           /\ passes' = IF next_stage = 1 THEN passes + 1 ELSE passes
           /\ loop_state' = LoopStateAfter(ev, next_stage, times_looped, max_iterations)
           /\ times_looped' = TimesLoopedAfter(ev, next_stage, times_looped)
           /\ next_stage' = NextStageAfter(next_stage)
    /\ UNCHANGED <<increment_amount, target_progress, max_iterations, seed_state>>
    /\ UNCHANGED pipeVars
    /\ UNCHANGED procVars

\* one invocation of ConditionChecker by the loop
RunConditionChecker ==
    /\ loop_state = "RUNNING"
    /\ sub_agents[next_stage] = "ConditionChecker"
    /\ LET ev == CheckerEvent(state, target_progress, times_looped + 1)
       IN  /\ events' = Append(events, ev)
           /\ passes' = IF next_stage = 1 THEN passes + 1 ELSE passes
           /\ loop_state' = LoopStateAfter(ev, next_stage, times_looped, max_iterations)
           /\ times_looped' = TimesLoopedAfter(ev, next_stage, times_looped)
           /\ next_stage' = NextStageAfter(next_stage)
    /\ UNCHANGED <<state, increment_amount, target_progress, max_iterations,
                   seed_state>>
    /\ UNCHANGED pipeVars
    /\ UNCHANGED procVars

Next ==
    \/ RunProgressIncrementer
    \/ RunConditionChecker

Spec == Init /\ [][Next]_vars

\* the event loop keeps resuming the loop agent while it has a stage to run
FairSpec == Spec /\ WF_vars(Next)

(***************************************************************************)
(* Part II (PipelineSpec): the Google Trends pipeline of                   *)
(*   src/Sequential_Agents_Google_ADK.py: the AgentLogger, the session     *)
(*   state, the five stages of trends_pipeline and run_pipeline, which     *)
(*   consumes the runner's event stream and finalizes the log.             *)
(*                                                                         *)
(* A text is modelled by its length, an exception by its message (a        *)
(* sequence of tokens, empty for an exception without arguments).          *)
(***************************************************************************)
None == "None"

\* Python's None where the model holds a length or a time
NoData == -1

\* Python's None where the model holds a message
NoError == <<None>>

\* a field that holds None instead of a summary
NoSummary == [kind |-> "null", prefix |-> 0, total_chars |-> NoData]

\* _summarize_data keeps at most this many characters of a payload
SummaryLimit == 500

\* a summary that already cuts a payload of exactly the limit
_summarize_data_cutting_early(data) ==
    IF data = NoData THEN [kind |-> "None", prefix |-> 4, total_chars |-> NoData]
    ELSE IF data >= SummaryLimit
         THEN [kind |-> "str", prefix |-> SummaryLimit, total_chars |-> data]
         ELSE [kind |-> "str", prefix |-> data, total_chars |-> NoData]

\* AgentLogger._summarize_data, on a payload given by the length of str(data)
\* (NoData for None): the string "None", or the kept prefix and, when the
\* payload was cut, its original length
_summarize_data(data) ==
    IF data = NoData THEN [kind |-> "None", prefix |-> 4, total_chars |-> NoData]
    ELSE IF data > SummaryLimit
         THEN [kind |-> "str", prefix |-> SummaryLimit, total_chars |-> data]
         ELSE [kind |-> "str", prefix |-> data, total_chars |-> NoData]

\* len(str(data)) if data else 0
DataSize(data) == IF data = NoData THEN 0 ELSE data

\* index of the record the loop "for agent in reversed(agents)" stops at:
\* the last record with that name, 0 when there is none
FindAgent(agents, agent_name) ==
    LET hits == {i \in 1..Len(agents) : agents[i].name = agent_name}
    IN  IF hits = {} THEN 0 ELSE CHOOSE i \in hits : \A j \in hits : j <= i

\* one line of the text log that reports a number of bytes
SizedLine(tag, agent_name, size) ==
    [tag |-> tag, agent |-> agent_name, bytes |-> size]

\* one line of the text log
Line(tag, agent_name) == SizedLine(tag, agent_name, NoData)

\* clock ticks in one second of datetime.now()
TicksPerSecond == 2

\* datetime.now().strftime("%Y%m%d_%H%M%S"): the time cut to whole seconds
RunId(now) == now \div TicksPerSecond

\* AgentLogger.__init__ and _setup_file_logger: empty run_data, the header
\* lines in the text log, no JSON file yet (json_log_file holds the written
\* report once there is one)
NewAgentLogger(now) ==
    [run_id   |-> RunId(now),
     run_data |-> [start_time |-> now,
                   end_time   |-> NoData,
                   agents     |-> <<>>,
                   events     |-> <<>>,
                   metrics    |-> [total_agents      |-> 0,
                                   successful_agents |-> 0,
                                   failed_agents     |-> 0,
                                   total_data_bytes  |-> 0]],
     file_log |-> <<Line("RULE", None), Line("HEADER", None),
                    Line("RUN ID", None), Line("RULE", None)>>,
     json_log_file  |-> <<>>,
     finalize_calls |-> 0]

\* a start that opens the record without counting it
log_agent_start_uncounted(L, agent_name, now) ==
    LET agent_entry == [name        |-> agent_name,
                        start_time  |-> now,
                        end_time    |-> NoData,
                        status      |-> "running",
                        input_data  |-> NoSummary,
                        output_data |-> NoSummary,
                        perceptions |-> <<>>,
                        actions     |-> <<>>,
                        errors      |-> <<>>]
    IN  [L EXCEPT
            !.run_data.agents = Append(@, agent_entry),
            !.file_log = @ \o <<Line("AGENT START", agent_name),
                                Line("Description", agent_name)>>]

\* AgentLogger.log_agent_start
log_agent_start(L, agent_name, now) ==
    LET agent_entry == [name        |-> agent_name,
                        start_time  |-> now,
                        end_time    |-> NoData,
                        status      |-> "running",
                        input_data  |-> NoSummary,
                        output_data |-> NoSummary,
                        perceptions |-> <<>>,
                        actions     |-> <<>>,
                        errors      |-> <<>>]
    IN  [L EXCEPT
            !.run_data.agents = Append(@, agent_entry),
            !.run_data.metrics.total_agents = @ + 1,
            !.file_log = @ \o <<Line("AGENT START", agent_name),
                                Line("Description", agent_name)>>]

\* AgentLogger.log_agent_perception
log_agent_perception(L, agent_name, perception_type, data, now) ==
    LET i == FindAgent(L.run_data.agents, agent_name)
        perception == [timestamp    |-> now,
                       type         |-> perception_type,
                       data_summary |-> _summarize_data(data),
                       data_size    |-> DataSize(data)]
        found == IF i = 0 THEN L
                 ELSE [L EXCEPT
                         !.run_data.agents[i].perceptions = Append(@, perception),
                         !.run_data.agents[i].input_data = _summarize_data(data),
                         !.run_data.metrics.total_data_bytes = @ + perception.data_size]
    IN  [found EXCEPT
            !.file_log = @ \o <<Line("PERCEPTION", agent_name),
                                SizedLine("Data size", agent_name, DataSize(data))>>]

\* AgentLogger.log_agent_action; details is a length, 0 for the default ""
log_agent_action(L, agent_name, action, details, now) ==
    LET i == FindAgent(L.run_data.agents, agent_name)
        action_entry == [timestamp |-> now, action |-> action, details |-> details]
        found == IF i = 0 THEN L
                 ELSE [L EXCEPT !.run_data.agents[i].actions = Append(@, action_entry)]
    IN  [found EXCEPT
            !.file_log = @ \o (IF details > 0
                               THEN <<Line("ACTION", agent_name), Line("Details", agent_name)>>
                               ELSE <<Line("ACTION", agent_name)>>)]

\* log_agent_action called once for each entry of calls, in order; a call is
\* [action, details]
log_agent_actions(L, agent_name, calls, now) ==
    LET i == FindAgent(L.run_data.agents, agent_name)
        entries == [j \in 1..Len(calls) |->
                       [timestamp |-> now, action |-> calls[j].action,
                        details |-> calls[j].details]]
        lines == [j \in 1..Len(calls) |->
                     IF calls[j].details > 0
                     THEN <<Line("ACTION", agent_name), Line("Details", agent_name)>>
                     ELSE <<Line("ACTION", agent_name)>>]
        RECURSIVE Flat(_)
        Flat(j) == IF j = 0 THEN <<>> ELSE Flat(j - 1) \o lines[j]
        found == IF i = 0 THEN L
                 ELSE [L EXCEPT !.run_data.agents[i].actions = @ \o entries]
    IN  [found EXCEPT !.file_log = @ \o Flat(Len(calls))]

\* AgentLogger.log_agent_output
log_agent_output(L, agent_name, output, now) ==
    LET i == FindAgent(L.run_data.agents, agent_name)
        found == IF i = 0 THEN L
                 ELSE [L EXCEPT !.run_data.agents[i].output_data = _summarize_data(output)]
    IN  [found EXCEPT
            !.file_log = Append(@, SizedLine("OUTPUT", agent_name, DataSize(output)))]

\* AgentLogger.log_agent_complete; error is a message or NoError, and
\* "if error:" is false for None and for the empty message
log_agent_complete(L, agent_name, success, error, now) ==
    LET i == FindAgent(L.run_data.agents, agent_name)
        truthy == error # NoError /\ error # <<>>
        found == IF i = 0 THEN L
                 ELSE [L EXCEPT
                         !.run_data.agents[i].end_time = now,
                         !.run_data.agents[i].status =
                             IF success THEN "success" ELSE "failed",
                         !.run_data.agents[i].errors =
                             IF truthy THEN Append(@, error) ELSE @]
    IN  IF success
        THEN [found EXCEPT
                !.run_data.metrics.successful_agents = @ + 1,
                !.file_log = Append(@, Line("AGENT COMPLETE", agent_name))]
        ELSE [found EXCEPT
                !.run_data.metrics.failed_agents = @ + 1,
                !.file_log = Append(@, Line("AGENT FAILED", agent_name))]

\* a log_event that also saves the JSON report
log_event_saving(L, event_type, now) ==
    LET logged == [L.run_data EXCEPT
                      !.events = Append(@, [timestamp |-> now, type |-> event_type])]
    IN  [L EXCEPT
            !.run_data = logged,
            !.json_log_file = <<logged>>,
            !.file_log = Append(@, Line("EVENT", event_type))]

\* AgentLogger.log_event
log_event(L, event_type, now) ==
    [L EXCEPT
        !.run_data.events = Append(@, [timestamp |-> now, type |-> event_type]),
        !.file_log = Append(@, Line("EVENT", event_type))]

\* AgentLogger.finalize: end time, the JSON report, the closing lines
finalize(L, now) ==
    LET ended == [L.run_data EXCEPT
                     !.end_time = now,
                     !.metrics = Put(@, "duration_seconds", now - L.run_data.start_time)]
    IN  [L EXCEPT
            !.run_data = ended,
            !.json_log_file = <<ended>>,
            !.finalize_calls = @ + 1,
            !.file_log = @ \o <<Line("RULE", None), Line("RUN COMPLETE", None),
                                Line("Duration", None), Line("Agents", None),
                                Line("RULE", None)>>]

(***************************************************************************)
(* The stages of trends_pipeline.                                          *)
(***************************************************************************)
\* bounds of the pipeline model
\* most trends a fetch returns
MaxTrends == 2

\* most URL fetches (or searches) of one stage that fail and are skipped
MaxSkippedErrors == 1

\* most text parts an LLM stage yields
MaxParts == 2

\* length of one line of trends_text_list
TrendLineLen == 30

\* length of str(fetched_data) without any trend
FetchedBaseLen == 40

\* length of the text of an LLM part
PartLen == 25

\* messages an exception may carry: str(e) is empty for one raised bare
Messages == {<<>>, <<"boom">>}

\* sub_agents of trends_pipeline, in list order
pipeline_agents == <<"LiveTrendsFetcher", "TrendCategorizer", "TrendsAnalyzer",
                     "InsightsGenerator", "TrendSourcesCollector">>

\* the names run_pipeline treats as LLM agents
LlmAgents == {"TrendCategorizer", "TrendsAnalyzer", "InsightsGenerator"}

\* output_key of each LLM stage
output_key(agent_name) ==
    CASE agent_name = "TrendCategorizer" -> "categorized_trends"
      [] agent_name = "TrendsAnalyzer" -> "analysis_report"
      [] agent_name = "InsightsGenerator" -> "strategic_insights"

\* number of entries of url_configs in LiveTrendsFetcher
NumUrlConfigs == 6

\* top_trends = sorted_trends[:15]
TopTrendsLimit == 15

\* one log_agent_action call
Call(action, details) == [action |-> action, details |-> details]

\* the log_agent_action calls of the loop "for config in url_configs": the
\* first `failing` URLs raise in driver.get and are logged as an error, the
\* others are fetched
RECURSIVE FetchUrlCalls(_, _)
FetchUrlCalls(k, failing) ==
    IF k = 0 THEN <<>>
    ELSE FetchUrlCalls(k - 1, failing) \o
         (IF k <= failing
          THEN <<Call("Fetching", 1), Call("Error fetching", 0)>>
          ELSE <<Call("Fetching", 1), Call("Waiting", 0), Call("Extracted", 0)>>)

\* length of "\n".join(lines) for n trends
TrendsTextLen(n) == IF n = 0 THEN 0 ELSE n * TrendLineLen + (n - 1)

\* length of str(fetched_data) for n trends
FetchedDataLen(n) == FetchedBaseLen + n * TrendLineLen

\* the error the fetcher records on each fault path
FetcherError(outcome, msg) ==
    IF outcome = "import_error" THEN <<"Missing package. Install:", "Error:">> \o msg
    ELSE msg

\* LiveTrendsFetcher._run_async_impl, what it logs.  outcome: "ok", or
\* "import_error" (selenium is not installed), or "exception" (the browser
\* cannot be started), or "quit_error" (driver.quit() raises once the urls
\* have been fetched), with the exception's message msg.
LiveTrendsFetcherLog(L, outcome, msg, n, failing, now) ==
    LET started == log_agent_start(L, "LiveTrendsFetcher", now)
        inited  == log_agent_action(started, "LiveTrendsFetcher",
                                    "Initializing Chrome WebDriver (headless)", 0, now)
        fetched == log_agent_actions(inited, "LiveTrendsFetcher",
                                     Append(FetchUrlCalls(NumUrlConfigs, failing),
                                            Call("Closed WebDriver", 0)), now)
    IN  CASE outcome = "ok" ->
               log_agent_complete(
                   log_agent_output(fetched, "LiveTrendsFetcher", FetchedDataLen(n), now),
                   "LiveTrendsFetcher", TRUE, NoError, now)
          [] outcome = "import_error" ->
               log_agent_complete(started, "LiveTrendsFetcher", FALSE,
                                  FetcherError(outcome, msg), now)
          [] outcome = "exception" ->
               log_agent_complete(inited, "LiveTrendsFetcher", FALSE,
                                  FetcherError(outcome, msg), now)
          [] outcome = "quit_error" ->
               log_agent_complete(
                   log_agent_actions(inited, "LiveTrendsFetcher",
                                     FetchUrlCalls(NumUrlConfigs, failing), now),
                   "LiveTrendsFetcher", FALSE, FetcherError(outcome, msg), now)

\* LiveTrendsFetcher._run_async_impl, what it writes to the session state
\* a fetcher that stores what it fetched before it closes the browser
LiveTrendsFetcherStateWritingEarly(sess, outcome, n) ==
    IF outcome \in {"ok", "quit_error"}
    THEN Put(Put(sess, "live_trends_data",
                 [all_trends_flat |-> n, len |-> FetchedDataLen(n)]),
             "trends_text_list", TrendsTextLen(n))
    ELSE sess

LiveTrendsFetcherState(sess, outcome, n) ==
    IF outcome = "ok"
    THEN Put(Put(sess, "live_trends_data",
                 [all_trends_flat |-> n, len |-> FetchedDataLen(n)]),
             "trends_text_list", TrendsTextLen(n))
    ELSE sess

\* a stage whose handler does not catch the exception of its capability
RunPcAfterStageUncaught(outcome) ==
    IF outcome = "exception" THEN "faulted" ELSE "consuming"

\* where run_pipeline stands after a custom stage ran with the given outcome:
\* the stage's "except ImportError" and "except Exception" handlers and its
\* no-data branch end in a yield, so the runner's stream goes on
RunPcAfterStage(outcome) == "consuming"

\* the events a stage invocation yields, each with the lengths of its text
\* parts; every path of the two custom stages ends in one yield
StageEvents(agent_name) == <<[author |-> agent_name, parts |-> <<PartLen>>]>>

\* all_trends as TrendSourcesCollector reads it:
\* state.get("live_trends_data", {}).get("all_trends_flat", [])
AllTrends(sess) ==
    IF "live_trends_data" \in DOMAIN sess
    THEN sess["live_trends_data"].all_trends_flat ELSE 0

\* the log_agent_action calls of the loop over top_trends: one "Searching
\* trend" per trend, and one "Search error" for each of the first `failing`
\* trends
RECURSIVE SearchTrendCalls(_, _)
SearchTrendCalls(k, failing) ==
    IF k = 0 THEN <<>>
    ELSE SearchTrendCalls(k - 1, failing) \o
         (IF k <= failing
          THEN <<Call("Searching trend", 0), Call("Search error", 0)>>
          ELSE <<Call("Searching trend", 0)>>)

\* the error the collector records on each fault path
CollectorError(outcome, msg) ==
    IF outcome = "no_data" THEN <<"No trends data found in session state">>
    ELSE <<"Error in TrendSourcesCollector: ">> \o msg

\* a collector whose no-data branch yields without logging the completion
TrendSourcesCollectorLogSilentNoData(L, outcome, msg, n, failing, now) ==
    LET started == log_agent_start(L, "TrendSourcesCollector", now)
        planned == log_agent_action(started, "TrendSourcesCollector",
                                    "Will search", 0, now)
    IN  CASE outcome = "no_data" -> started
          [] outcome = "exception" ->
               log_agent_complete(planned, "TrendSourcesCollector", FALSE,
                                  CollectorError(outcome, msg), now)
          [] outcome = "ok" ->
               log_agent_complete(
                   log_agent_output(
                       log_agent_actions(planned, "TrendSourcesCollector",
                                         SearchTrendCalls(Min(n, TopTrendsLimit), failing),
                                         now),
                       "TrendSourcesCollector", FetchedBaseLen, now),
                   "TrendSourcesCollector", TRUE, NoError, now)

\* TrendSourcesCollector._run_async_impl, what it logs.  outcome: "no_data"
\* (no trends in the state), "ok", or "exception" (the browser cannot be
\* started, or a file cannot be written) with the exception's message msg.
TrendSourcesCollectorLog(L, outcome, msg, n, failing, now) ==
    LET started  == log_agent_start(L, "TrendSourcesCollector", now)
        top      == Min(n, TopTrendsLimit)
        planned  == log_agent_action(started, "TrendSourcesCollector",
                                     "Will search", 0, now)
        searched == log_agent_actions(planned, "TrendSourcesCollector",
                                      SearchTrendCalls(top, failing), now)
    IN  CASE outcome = "no_data" ->
               log_agent_complete(started, "TrendSourcesCollector", FALSE,
                                  CollectorError(outcome, msg), now)
          [] outcome = "exception" ->
               log_agent_complete(planned, "TrendSourcesCollector", FALSE,
                                  CollectorError(outcome, msg), now)
          [] outcome = "ok" ->
               log_agent_complete(
                   log_agent_output(searched, "TrendSourcesCollector", FetchedBaseLen, now),
                   "TrendSourcesCollector", TRUE, NoError, now)

\* TrendSourcesCollector._run_async_impl, what it writes to the session state
TrendSourcesCollectorState(sess, outcome, n) ==
    IF outcome = "ok"
    THEN Put(Put(Put(sess, "trend_sources",
                     [trends |-> Min(n, TopTrendsLimit), len |-> FetchedBaseLen]),
                 "sources_file", TrendLineLen),
             "sources_json_file", TrendLineLen + 1)
    ELSE sess

(***************************************************************************)
(* run_pipeline: the body of "async for event in runner.run_async(...)".   *)
(***************************************************************************)
\* the author part: a change of author is logged as a transition, and an LLM
\* agent gets its start (and its perception of trends_text_list) logged here
ConsumeAuthor(L, cur, sess, author, now) ==
    IF author # "" /\ author # cur /\ author \notin {"GoogleTrendsPipeline", "user"}
    THEN LET moved   == IF cur # "" THEN log_event(L, "agent_transition", now) ELSE L
             started == log_agent_start(moved, author, now)
             input_data == Get(sess, "trends_text_list", 0)
         IN  IF author \in LlmAgents
             THEN IF DOMAIN sess # {} /\ input_data # 0
                  THEN log_agent_perception(started, author,
                                            "Session State: trends_text_list",
                                            input_data, now)
                  ELSE started
             ELSE moved
    ELSE L

\* current_agent after the author part
AuthorAfter(cur, author) ==
    IF author # "" /\ author # cur /\ author \notin {"GoogleTrendsPipeline", "user"}
    THEN author ELSE cur

\* the content part: each non-empty text part of an LLM agent is logged as
\* its output and as a successful completion, and its size is counted
RECURSIVE ConsumeParts(_, _, _, _)
ConsumeParts(L, cur, parts, now) ==
    IF parts = <<>> THEN L
    ELSE LET output_size == Head(parts)
             logged == [log_agent_complete(
                            log_agent_output(L, cur, output_size, now),
                            cur, TRUE, NoError, now)
                        EXCEPT !.run_data.metrics.total_data_bytes = @ + output_size]
         IN  ConsumeParts(IF output_size > 0 /\ cur \in LlmAgents THEN logged ELSE L,
                          cur, Tail(parts), now)

\* the whole loop body for one event
ConsumeEvent(L, cur, sess, ev, now) ==
    ConsumeParts(ConsumeAuthor(L, cur, sess, ev.author, now),
                 AuthorAfter(cur, ev.author), ev.parts, now)

\* the loop body applied to the events of one stage invocation, in order
RECURSIVE ConsumeAll(_, _, _, _, _)
ConsumeAll(L, cur, sess, evs, now) ==
    IF evs = <<>> THEN L
    ELSE ConsumeAll(ConsumeEvent(L, cur, sess, Head(evs), now),
                    AuthorAfter(cur, Head(evs).author), sess, Tail(evs), now)

\* current_agent after the events of one stage invocation
RECURSIVE AuthorAfterAll(_, _)
AuthorAfterAll(cur, evs) ==
    IF evs = <<>> THEN cur
    ELSE AuthorAfterAll(AuthorAfter(cur, Head(evs).author), Tail(evs))

\* len(json.dumps(x, default=str)) for a stored mapping, "{}" when absent
JsonLen(sess, k) == IF k \in DOMAIN sess THEN sess[k].len ELSE 2

\* total_session_data of run_pipeline
TotalSessionData(sess) ==
    JsonLen(sess, "live_trends_data")
    + Get(sess, "trends_text_list", 0)
    + Get(sess, "categorized_trends", 0)
    + Get(sess, "analysis_report", 0)
    + Get(sess, "strategic_insights", 0)
    + JsonLen(sess, "trend_sources")

\* run_pipeline after the event stream has ended: the session summary (only
\* for a non-empty state), the pipeline_complete event and finalize()
FinishLog(L, sess, now) ==
    LET summed == IF DOMAIN sess # {}
                  THEN log_event([L EXCEPT !.run_data.metrics.total_data_bytes =
                                                @ + TotalSessionData(sess)],
                                 "session_data_summary", now)
                  ELSE L
    IN  finalize(log_event(summed, "pipeline_complete", now), now)

(***************************************************************************)
(* The trends pipeline run: one action per step of run_pipeline and per    *)
(* stage invocation; the events of a stage are consumed by the loop body   *)
(* of run_pipeline before the next stage is invoked.                       *)
(***************************************************************************)
PipelineInit ==
    /\ LoopIdle({INCREMENT_AMOUNT}, {1})
    /\ PipelineIdle
    /\ ProcIdle

\* run_pipeline up to the "async for": the logger, the session, two events
StartRun ==
    /\ run_pc = "idle"
    /\ agent_logger' = log_event(log_event(NewAgentLogger(clock),
                                           "pipeline_start", clock),
                                 "session_created", clock)
    /\ session_state' = <<>>
    /\ run_pc' = "consuming"
    /\ current_agent' = ""
    /\ clock' = clock + 1
    /\ UNCHANGED <<stage_idx, yielded, invoked>>
    /\ UNCHANGED loopVars
    /\ UNCHANGED procVars

\* SequentialAgent invokes LiveTrendsFetcher; run_pipeline consumes its event
InvokeLiveTrendsFetcher ==
    /\ run_pc = "consuming"
    /\ stage_idx <= Len(pipeline_agents)
    /\ pipeline_agents[stage_idx] = "LiveTrendsFetcher"
    /\ \E outcome \in {"ok", "import_error", "exception", "quit_error"},
          msg \in Messages,
          n \in 0..MaxTrends, failing \in 0..MaxSkippedErrors :
          /\ outcome = "ok" => msg = <<>>
          /\ outcome \in {"import_error", "exception"} => (n = 0 /\ failing = 0)
          /\ LET evs  == StageEvents("LiveTrendsFetcher")
                 sess == LiveTrendsFetcherState(session_state, outcome, n)
                 L    == LiveTrendsFetcherLog(agent_logger, outcome, msg, n,
                                              failing, clock)
             IN  /\ session_state' = sess
                 /\ agent_logger' = ConsumeAll(L, current_agent, sess, evs, clock)
                 /\ current_agent' = AuthorAfterAll(current_agent, evs)
                 /\ yielded' = yielded \o evs
                 /\ invoked' = Append(invoked, [stage   |-> "LiveTrendsFetcher",
                                                outcome |-> outcome,
                                                error   |-> msg])
                 /\ run_pc' = RunPcAfterStage(outcome)
    /\ stage_idx' = stage_idx + 1
    /\ clock' = clock + 1
    /\ UNCHANGED loopVars
    /\ UNCHANGED procVars

\* k text parts of an LLM response
RECURSIVE TextParts(_)
TextParts(k) == IF k = 0 THEN <<>> ELSE Append(TextParts(k - 1), PartLen)

\* SequentialAgent invokes an LlmAgent stage: it yields one event with k text
\* parts, consumed by run_pipeline, or its model call raises, and the
\* exception leaves the runner's stream and run_pipeline
InvokeLlmAgent ==
    /\ run_pc = "consuming"
    /\ stage_idx <= Len(pipeline_agents)
    /\ pipeline_agents[stage_idx] \in LlmAgents
    /\ \E k \in 0..MaxParts, raised \in BOOLEAN :
          LET name == pipeline_agents[stage_idx]
              evs  == IF raised THEN <<>>
                      ELSE <<[author |-> name, parts |-> TextParts(k)]>>
              sess == IF ~raised /\ k > 0
                      THEN Put(session_state, output_key(name), PartLen)
                      ELSE session_state
          IN  /\ raised => k = 0
              /\ session_state' = sess
              /\ agent_logger' = ConsumeAll(agent_logger, current_agent,
                                            session_state, evs, clock)
              /\ current_agent' = AuthorAfterAll(current_agent, evs)
              /\ yielded' = yielded \o evs
              /\ invoked' = Append(invoked, [stage   |-> name,
                                             outcome |-> IF raised THEN "raised" ELSE "ok",
                                             error   |-> <<>>])
              /\ run_pc' = IF raised THEN "faulted" ELSE "consuming"
              /\ stage_idx' = IF raised THEN stage_idx ELSE stage_idx + 1
    /\ clock' = clock + 1
    /\ UNCHANGED loopVars
    /\ UNCHANGED procVars

\* SequentialAgent invokes TrendSourcesCollector; run_pipeline consumes its
\* event
InvokeTrendSourcesCollector ==
    /\ run_pc = "consuming"
    /\ stage_idx <= Len(pipeline_agents)
    /\ pipeline_agents[stage_idx] = "TrendSourcesCollector"
    /\ \E outcome \in {"ok", "no_data", "exception"}, msg \in Messages,
          failing \in 0..MaxSkippedErrors :
          LET n == AllTrends(session_state) IN
          /\ outcome = "no_data" <=> n = 0
          /\ outcome # "exception" => msg = <<>>
          /\ outcome # "ok" => failing = 0
          /\ failing <= n
          /\ LET evs  == StageEvents("TrendSourcesCollector")
                 sess == TrendSourcesCollectorState(session_state, outcome, n)
                 L    == TrendSourcesCollectorLog(agent_logger, outcome, msg, n,
                                                  failing, clock)
             IN  /\ session_state' = sess
                 /\ agent_logger' = ConsumeAll(L, current_agent, sess, evs, clock)
                 /\ current_agent' = AuthorAfterAll(current_agent, evs)
                 /\ yielded' = yielded \o evs
                 /\ invoked' = Append(invoked, [stage   |-> "TrendSourcesCollector",
                                                outcome |-> outcome,
                                                error   |-> msg])
                 /\ run_pc' = RunPcAfterStage(outcome)
    /\ stage_idx' = stage_idx + 1
    /\ clock' = clock + 1
    /\ UNCHANGED loopVars
    /\ UNCHANGED procVars

\* the event stream has ended: run_pipeline logs the summary and finalizes
FinishRun ==
    /\ run_pc = "consuming"
    /\ stage_idx > Len(pipeline_agents)
    /\ agent_logger' = FinishLog(agent_logger, session_state, clock)
    /\ run_pc' = "complete"
    /\ clock' = clock + 1
    /\ UNCHANGED <<session_state, stage_idx, current_agent, yielded, invoked>>
    /\ UNCHANGED loopVars
    /\ UNCHANGED procVars

PipelineNext ==
    \/ StartRun
    \/ InvokeLiveTrendsFetcher
    \/ InvokeLlmAgent
    \/ InvokeTrendSourcesCollector
    \/ FinishRun

PipelineSpec == PipelineInit /\ [][PipelineNext]_vars

(***************************************************************************)
(* Properties of the StatusPoller loop.                                    *)
(***************************************************************************)
Terminal == loop_state \in {"ESCALATED", "EXHAUSTED"}

EscalateIdx == {i \in 1..Len(events) : events[i].escalate}

NoEscalate == EscalateIdx = {}

\* C1: whatever max_iterations = N is configured, a run in which no event
\* carries escalate performs exactly N passes and then ends EXHAUSTED: it never
\* runs more than N passes, it is EXHAUSTED exactly when N passes have completed
\* without escalation, and each pass forwarded one event per stage; with
\* increment 0 and max_iterations 3 no event ever escalates and the loop ends
\* EXHAUSTED with exactly 3 passes.
C1_ExhaustedAfterExactlyN ==
    /\ NoEscalate => passes <= max_iterations
    /\ (NoEscalate /\ Terminal) =>
          /\ loop_state = "EXHAUSTED"
          /\ passes = max_iterations
          /\ times_looped = max_iterations
          /\ Len(events) = Len(sub_agents) * max_iterations
    /\ (NoEscalate /\ loop_state = "RUNNING") => times_looped < max_iterations
    /\ loop_state = "EXHAUSTED" => NoEscalate
    /\ (increment_amount = 0 /\ max_iterations = 3) =>
          /\ NoEscalate
          /\ Terminal => (loop_state = "EXHAUSTED" /\ passes = 3)

\* the exhaustion scenario has run to its end
C1_Witness ==
    /\ increment_amount = 0
    /\ max_iterations = 3
    /\ loop_state = "EXHAUSTED"
    /\ passes = 3

\* C2: once an event with escalate = true has been emitted, it is the last
\* event of the run, its pass is the last pass started, and the loop is
\* ESCALATED, however many iterations the cap still allows; an ESCALATED loop
\* always ends on such an event.
C2_EscalateStopsLoop ==
    /\ \A i \in EscalateIdx :
          /\ i = Len(events)
          /\ events[i].pass = passes
          /\ loop_state = "ESCALATED"
    /\ loop_state = "ESCALATED" =>
          (Len(events) > 0 /\ events[Len(events)].escalate)

\* an escalation that left at least two passes of budget unused
C2_Witness ==
    /\ loop_state = "ESCALATED"
    /\ EscalateIdx # {}
    /\ passes + 2 <= max_iterations

\* progress reported by the incrementer on pass p of the bounded increment loop
ScenarioProgress(p) == Min(INCREMENT_AMOUNT * p, ProgressClamp)

\* C3: the bounded increment loop (seed {progress 0, iteration 0}, add 17
\* clamped at 100, escalate at progress >= 100, max_iterations = 8): the
\* incrementer reports 17, 34, 51, 68, 85, 100 on passes 1..6, the first
\* escalate event is on pass 6, and the loop ends ESCALATED after exactly six
\* passes with state {progress 100, iteration 6}.
C3_BoundedIncrementLoop ==
    (increment_amount = INCREMENT_AMOUNT /\ max_iterations = 8
        /\ target_progress = TARGET_PROGRESS) =>
        /\ passes <= 6
        /\ \A i \in 1..Len(events) :
              /\ events[i].author = "ProgressIncrementer" =>
                    /\ events[i].progress = ScenarioProgress(events[i].pass)
                    /\ events[i].iteration = events[i].pass
              /\ events[i].escalate <=>
                    (events[i].author = "ConditionChecker" /\ events[i].pass = 6)
        /\ Len(events) >= 11 =>
              <<events[1].progress, events[3].progress, events[5].progress,
                events[7].progress, events[9].progress, events[11].progress>>
                 = <<17, 34, 51, 68, 85, 100>>
        /\ Terminal =>
              /\ loop_state = "ESCALATED"
              /\ passes = 6
              /\ state = [progress |-> 100, iteration |-> 6]

\* the bounded increment loop has ended
C3_Witness ==
    /\ increment_amount = INCREMENT_AMOUNT
    /\ max_iterations = 8
    /\ Terminal
    /\ Len(events) = 12

\* C4: an escalate event emitted on the pass whose number equals
\* max_iterations ends the loop ESCALATED, not EXHAUSTED; EXHAUSTED is reached
\* only when the last pass carried no escalate event.
C4_EscalationOverridesCap ==
    /\ (Len(events) > 0 /\ events[Len(events)].escalate
          /\ events[Len(events)].pass = max_iterations) =>
          loop_state = "ESCALATED"
    /\ loop_state = "EXHAUSTED" =>
          \A i \in 1..Len(events) :
              events[i].pass = max_iterations => ~events[i].escalate

\* the escalation happened on the last pass the cap allows, cap above 1
C4_Witness ==
    /\ Len(events) > 0
    /\ events[Len(events)].escalate
    /\ events[Len(events)].pass = max_iterations
    /\ max_iterations >= 2
    /\ loop_state = "ESCALATED"

\* C5: every execution of the loop terminates: it eventually is ESCALATED or
\* EXHAUSTED, it never starts more than max_iterations passes, and a condition
\* that is never met (no escalate after the last allowed pass) leaves the loop
\* in the EXHAUSTED state rather than in any other outcome.
C5_LoopTerminates ==
    /\ <>Terminal
    /\ [](passes <= max_iterations)
    /\ []((NoEscalate /\ times_looped >= max_iterations) => loop_state = "EXHAUSTED")
    /\ [](loop_state \in {"RUNNING", "ESCALATED", "EXHAUSTED"})

\* a loop whose condition was not met in time, with progress being made
C5_Witness ==
    /\ loop_state = "EXHAUSTED"
    /\ increment_amount = 10
    /\ passes = max_iterations
    /\ max_iterations >= 5

\* C10: read-your-writes on the State Store: ConditionChecker on pass P reads
\* the progress and iteration that ProgressIncrementer wrote on pass P;
\* ProgressIncrementer on pass P+1 reads what it wrote on pass P; the store
\* holds the last value written under each key; and no key is ever deleted.
C10_ReadYourWrites ==
    /\ \A i \in 1..Len(events) :
          /\ (events[i].author = "ConditionChecker") =>
                /\ i > 1
                /\ events[i-1].author = "ProgressIncrementer"
                /\ events[i-1].pass = events[i].pass
                /\ events[i].progress = events[i-1].progress
                /\ events[i].iteration = events[i-1].iteration
          /\ (events[i].author = "ProgressIncrementer" /\ i > 2) =>
                /\ events[i].iteration = events[i-2].iteration + 1
                /\ events[i].progress =
                      Min(events[i-2].progress + increment_amount, ProgressClamp)
    /\ \A i \in 1..Len(events) :
          (events[i].author = "ProgressIncrementer"
             /\ \A j \in (i+1)..Len(events) : events[j].author # "ProgressIncrementer") =>
                /\ Get(state, "progress", 0) = events[i].progress
                /\ Get(state, "iteration", 0) = events[i].iteration
    /\ DOMAIN SeedState \subseteq DOMAIN state

\* the checker of a pass after the first has read a non-default progress
C10_Witness ==
    /\ Len(events) >= 4
    /\ events[Len(events)].author = "ConditionChecker"
    /\ events[Len(events)].progress > 0
    /\ events[Len(events)].iteration >= 2

(***************************************************************************)
(* Properties of the trends pipeline run.                                  *)
(***************************************************************************)
\* the custom stages of the pipeline (BaseAgent subclasses)
CustomStages == {"LiveTrendsFetcher", "TrendSourcesCollector"}

\* the outcomes in which a custom stage's work failed
FaultOutcomes == {"import_error", "exception", "quit_error", "no_data"}

RunEnded == run_pc \in {"complete", "faulted"}

\* positions of the text log lines with one of the tags, for one agent
LinesOf(tags, agent_name) ==
    {i \in 1..Len(agent_logger.file_log) :
        /\ agent_logger.file_log[i].tag \in tags
        /\ agent_logger.file_log[i].agent = agent_name}

\* C6: the Run Coordinator calls finalize() exactly once per run on every
\* path: whenever run_pipeline has ended, normally or by an exception raised
\* while the runner's event stream was consumed, finalize() has been called
\* exactly once, and it is never called twice.
C6_FinalizeExactlyOnce ==
    run_pc # "idle" =>
        /\ agent_logger.finalize_calls <= 1
        /\ RunEnded => agent_logger.finalize_calls = 1

\* C7: when a stage's capability call fails, the structured record of that
\* stage has status 'failed' and a non-empty error list whose messages are
\* non-empty, whatever fault the capability raised.
C7_FailedStageHasError ==
    \A i \in 1..Len(invoked) :
        (invoked[i].stage \in CustomStages /\ invoked[i].outcome \in FaultOutcomes) =>
            LET r == FindAgent(agent_logger.run_data.agents, invoked[i].stage)
            IN  /\ r # 0
                /\ agent_logger.run_data.agents[r].status = "failed"
                /\ agent_logger.run_data.agents[r].errors # <<>>
                /\ \A e \in 1..Len(agent_logger.run_data.agents[r].errors) :
                       agent_logger.run_data.agents[r].errors[e] # <<>>

\* C8 as stated: when a stage's capability call fails during a pass, no
\* further stage of the list is invoked in that pass.
C8_RemainingStagesSkipped ==
    \A i \in 1..Len(invoked) :
        invoked[i].outcome \in FaultOutcomes => i = Len(invoked)

\* C8 amended: a custom stage whose capability call fails recovers the fault
\* itself, so the pass goes on: stages are invoked in list order without gaps,
\* the executor advances past a failed custom stage, a run that completes has
\* invoked every stage of the list, and stages are skipped only when an
\* exception leaves a stage (an LLM stage's call raising), which ends the run.
C8_FailedStageDoesNotStopPass ==
    /\ Len(invoked) <= Len(pipeline_agents)
    /\ \A i \in 1..Len(invoked) :
          /\ invoked[i].stage = pipeline_agents[i]
          /\ invoked[i].outcome \in FaultOutcomes => stage_idx > i
    /\ run_pc = "consuming" => stage_idx = Len(invoked) + 1
    /\ run_pc = "complete" => Len(invoked) = Len(pipeline_agents)
    /\ run_pc = "faulted" =>
          /\ Len(invoked) > 0
          /\ invoked[Len(invoked)].stage \in LlmAgents
          /\ invoked[Len(invoked)].outcome = "raised"

\* LiveTrendsFetcher failed and the run went through all five stages
C8_Witness ==
    /\ run_pc = "complete"
    /\ Len(invoked) = Len(pipeline_agents)
    /\ invoked[1].outcome = "exception"
    /\ invoked[2].stage = "TrendCategorizer"

\* C9: on every path of a custom stage invocation (success, missing package,
\* capability exception, missing input data) the stage logs exactly one start
\* and, after it, exactly one completion, which is a failure on every fault
\* path and a success otherwise; it yields exactly one event; and no exception
\* of the stage reaches run_pipeline.
C9_StageFaultsRecoveredLocally ==
    run_pc # "idle" =>
        /\ \A s \in CustomStages :
              LET runs      == {i \in 1..Len(invoked) : invoked[i].stage = s}
                  starts    == LinesOf({"AGENT START"}, s)
                  successes == LinesOf({"AGENT COMPLETE"}, s)
                  failures  == LinesOf({"AGENT FAILED"}, s)
                  evs       == {i \in 1..Len(yielded) : yielded[i].author = s}
                  records   == {i \in 1..Len(agent_logger.run_data.agents) :
                                   agent_logger.run_data.agents[i].name = s}
              IN  /\ Cardinality(starts) = Cardinality(runs)
                  /\ Cardinality(successes \cup failures) = Cardinality(runs)
                  /\ Cardinality(evs) = Cardinality(runs)
                  /\ Cardinality(records) = Cardinality(runs)
                  /\ \A a \in starts, c \in successes \cup failures : a < c
                  /\ \A i \in runs :
                        /\ invoked[i].outcome \in FaultOutcomes =>
                              (failures # {} /\ successes = {})
                        /\ invoked[i].outcome = "ok" =>
                              (successes # {} /\ failures = {})
                  /\ \A i \in records :
                        agent_logger.run_data.agents[i].status # "running"
        /\ run_pc = "faulted" =>
              invoked[Len(invoked)].stage \notin CustomStages

\* both custom stages ran on a fault path and the run completed
C9_Witness ==
    /\ run_pc = "complete"
    /\ invoked[1].outcome = "import_error"
    /\ invoked[Len(invoked)].stage = "TrendSourcesCollector"
    /\ invoked[Len(invoked)].outcome = "no_data"
    /\ Cardinality(LinesOf({"AGENT FAILED"}, "TrendSourcesCollector")) = 1

(***************************************************************************)
(* The metrics of the run record.                                          *)
(***************************************************************************)
\* the bytes reported by the lines of a text log whose tag is in tags
RECURSIVE SumBytes(_, _)
SumBytes(lines, tags) ==
    IF lines = <<>> THEN 0
    ELSE (IF Head(lines).tag \in tags THEN Head(lines).bytes ELSE 0)
         + SumBytes(Tail(lines), tags)

\* the payload sizes of the perceptions and outputs a logger has recorded,
\* as its text log reports them ("Data size: n bytes", "produced n bytes")
RecordedPayloadBytes(L) == SumBytes(L.file_log, {"Data size", "OUTPUT"})

\* C11: when run_pipeline has finalized the log, metrics.total_data_bytes is
\* the sum of the payload sizes of the perceptions and outputs recorded in
\* the run: every recorded payload counted once and nothing else added.
C11_TotalBytesIsSumOfEntries ==
    run_pc = "complete" =>
        agent_logger.run_data.metrics.total_data_bytes
            = RecordedPayloadBytes(agent_logger)

(***************************************************************************)
(* Part III (LoggerSpec): one AgentLogger driven through its methods in    *)
(* any order, as a caller of the class may do: stage names that repeat,    *)
(* calls for a name that was never started, several perceptions, outputs   *)
(* and completions of one stage.  Every method call is one step and reads  *)
(* the clock once.                                                         *)
(***************************************************************************)
\* most logger method calls made on the logger before finalize()
MaxCalls == 3

\* the stage names the calls use
StageNames == {"Fetcher", "Analyzer"}

\* the payloads a perception or an output carries: None, and texts of a
\* length below, at and just above the summary limit
Payloads == {NoData, 20, SummaryLimit, SummaryLimit + 1}

\* one entry of logger_calls
LoggerCall(op, agent_name) == [op |-> op, agent |-> agent_name]

LoggerInit ==
    /\ LoopIdle({INCREMENT_AMOUNT}, {1})
    /\ PipelineIdle
    /\ ProcIdle

\* the frame of a logger method call: only the logger, the clock and the
\* call history change
LoggerFrame ==
    /\ clock' = clock + 1
    /\ UNCHANGED <<session_state, stage_idx, current_agent, yielded, invoked>>
    /\ UNCHANGED loopVars
    /\ UNCHANGED concVars
    /\ UNCHANGED raVars

\* agent_logger = AgentLogger(log_dir="logs")
CreateLogger ==
    /\ run_pc = "idle"
    /\ agent_logger' = NewAgentLogger(clock)
    /\ run_pc' = "logging"
    /\ logger_calls' = <<>>
    /\ LoggerFrame

\* agent_logger.log_agent_start(name, ...)
CallAgentStart ==
    /\ run_pc = "logging" /\ Len(logger_calls) < MaxCalls
    /\ \E name \in StageNames :
          /\ agent_logger' = log_agent_start(agent_logger, name, clock)
          /\ logger_calls' = Append(logger_calls, LoggerCall("start", name))
    /\ UNCHANGED run_pc
    /\ LoggerFrame

\* agent_logger.log_agent_perception(name, type, data)
CallAgentPerception ==
    /\ run_pc = "logging" /\ Len(logger_calls) < MaxCalls
    /\ \E name \in StageNames, data \in Payloads :
          /\ agent_logger' = log_agent_perception(agent_logger, name,
                                                  "input", data, clock)
          /\ logger_calls' = Append(logger_calls, LoggerCall("perceive", name))
    /\ UNCHANGED run_pc
    /\ LoggerFrame

\* agent_logger.log_agent_action(name, action, details)
CallAgentAction ==
    /\ run_pc = "logging" /\ Len(logger_calls) < MaxCalls
    /\ \E name \in StageNames, details \in {0, 1} :
          /\ agent_logger' = log_agent_action(agent_logger, name, "step",
                                              details, clock)
          /\ logger_calls' = Append(logger_calls, LoggerCall("act", name))
    /\ UNCHANGED run_pc
    /\ LoggerFrame

\* agent_logger.log_agent_output(name, output)
CallAgentOutput ==
    /\ run_pc = "logging" /\ Len(logger_calls) < MaxCalls
    /\ \E name \in StageNames, output \in Payloads :
          /\ agent_logger' = log_agent_output(agent_logger, name, output, clock)
          /\ logger_calls' = Append(logger_calls, LoggerCall("output", name))
    /\ UNCHANGED run_pc
    /\ LoggerFrame

\* agent_logger.log_agent_complete(name, success, error)
CallAgentComplete ==
    /\ run_pc = "logging" /\ Len(logger_calls) < MaxCalls
    /\ \E name \in StageNames, success \in BOOLEAN,
          error \in Messages \cup {NoError} :
          /\ success => error = NoError
          /\ ~success => error # NoError
          /\ agent_logger' = log_agent_complete(agent_logger, name, success,
                                                error, clock)
          /\ logger_calls' = Append(logger_calls, LoggerCall("complete", name))
    /\ UNCHANGED run_pc
    /\ LoggerFrame

\* agent_logger.log_event(type, data)
CallEvent ==
    /\ run_pc = "logging" /\ Len(logger_calls) < MaxCalls
    /\ agent_logger' = log_event(agent_logger, "note", clock)
    /\ logger_calls' = Append(logger_calls, LoggerCall("event", "note"))
    /\ UNCHANGED run_pc
    /\ LoggerFrame

\* agent_logger.finalize()
CallFinalize ==
    /\ run_pc = "logging"
    /\ agent_logger' = finalize(agent_logger, clock)
    /\ logger_calls' = Append(logger_calls, LoggerCall("finalize", None))
    /\ run_pc' = "complete"
    /\ LoggerFrame

LoggerNext ==
    \/ CreateLogger
    \/ CallAgentStart
    \/ CallAgentPerception
    \/ CallAgentAction
    \/ CallAgentOutput
    \/ CallAgentComplete
    \/ CallEvent
    \/ CallFinalize

LoggerSpec == LoggerInit /\ [][LoggerNext]_vars

\* the logger exists
Logging == run_pc \in {"logging", "complete"}

\* the last call made on the logger
LastCall == logger_calls[Len(logger_calls)]

\* a step in which a method of the existing logger is called
LoggerCalled == run_pc = "logging" /\ logger_calls' # logger_calls

\* the step is a call of the method op
Called(op) == LoggerCalled /\ logger_calls'[Len(logger_calls')].op = op

\* C12: in every state of a run metrics.total_agents is the number of stage
\* records in the agents list; a start appends exactly one record, with
\* status 'running', and adds one to the counter, and no other logger method
\* changes the length of the list or the counter.
C12_TotalAgentsCountsRecords ==
    /\ [](Logging =>
            agent_logger.run_data.metrics.total_agents
                = Len(agent_logger.run_data.agents))
    /\ [][LoggerCalled =>
            LET before == agent_logger.run_data
                after  == agent_logger'.run_data
            IN  IF Called("start")
                THEN /\ Len(after.agents) = Len(before.agents) + 1
                     /\ SubSeq(after.agents, 1, Len(before.agents)) = before.agents
                     /\ after.agents[Len(after.agents)].status = "running"
                     /\ after.agents[Len(after.agents)].name
                            = logger_calls'[Len(logger_calls')].agent
                     /\ after.metrics.total_agents = before.metrics.total_agents + 1
                ELSE /\ Len(after.agents) = Len(before.agents)
                     /\ after.metrics.total_agents = before.metrics.total_agents]_vars

\* two records of one name have been started and another method was called
\* after them
C12_Witness ==
    /\ Logging
    /\ Len(logger_calls) = MaxCalls
    /\ logger_calls[1].op = "start" /\ logger_calls[2].op = "start"
    /\ logger_calls[1].agent = logger_calls[2].agent
    /\ LastCall.op = "complete"
    /\ agent_logger.run_data.metrics.total_agents = 2

\* the records of a name that are still open, by index
OpenRecords(agents, agent_name) ==
    {i \in 1..Len(agents) :
        agents[i].name = agent_name /\ agents[i].status = "running"}

\* what a completion sets in a record
Closing(rec) == <<rec.end_time, rec.status, rec.errors>>

\* C13: complete(name, ...) closes the most recently started record of that
\* name that is still open: a record that was already closed keeps its end
\* time, status and error list, and when the name has an open record the
\* completion is attached to the most recent one.
C13_CompleteClosesMostRecentOpen ==
    [][Called("complete") =>
        LET before == agent_logger.run_data.agents
            after  == agent_logger'.run_data.agents
            name   == logger_calls'[Len(logger_calls')].agent
            open   == OpenRecords(before, name)
        IN  /\ Len(after) = Len(before)
            /\ \A i \in 1..Len(before) :
                  before[i].status # "running" =>
                      Closing(after[i]) = Closing(before[i])
            /\ open # {} =>
                  LET last == CHOOSE i \in open : \A j \in open : j <= i
                  IN  /\ after[last].status # "running"
                      /\ after[last].end_time = clock]_vars

\* s is an initial part of t
IsPrefix(s, t) == Len(s) <= Len(t) /\ SubSeq(t, 1, Len(s)) = s

\* C14: log entries are append-only: after any logger call every perception,
\* action, output and event entry recorded before is still there, unchanged
\* and at the same position, in the record and in the text log; a second
\* output of a stage does not replace the output recorded first.
C14_EntriesAppendOnly ==
    [][LoggerCalled =>
        LET before == agent_logger.run_data
            after  == agent_logger'.run_data
        IN  /\ IsPrefix(before.events, after.events)
            /\ IsPrefix(agent_logger.file_log, agent_logger'.file_log)
            /\ Len(before.agents) <= Len(after.agents)
            /\ \A i \in 1..Len(before.agents) :
                  /\ after.agents[i].name = before.agents[i].name
                  /\ IsPrefix(before.agents[i].perceptions,
                              after.agents[i].perceptions)
                  /\ IsPrefix(before.agents[i].actions, after.agents[i].actions)
                  /\ before.agents[i].output_data # NoSummary =>
                        after.agents[i].output_data = before.agents[i].output_data]_vars

\* number of lines of a text log with one of the tags, about one name
CountLines(lines, tags, agent_name) ==
    Cardinality({i \in 1..Len(lines) :
                    lines[i].tag \in tags /\ lines[i].agent = agent_name})

\* number of entries the records of one name hold in a list field
RECURSIVE CountEntries(_, _, _)
CountEntries(agents, agent_name, field) ==
    IF agents = <<>> THEN 0
    ELSE (IF Head(agents).name = agent_name THEN Len(Head(agents)[field]) ELSE 0)
         + CountEntries(Tail(agents), agent_name, field)

\* the records of one name that satisfy a test, by index
RecordsWith(agents, agent_name, Test(_)) ==
    {i \in 1..Len(agents) : agents[i].name = agent_name /\ Test(agents[i])}

\* C15: the text trace and the structured record hold the same entries: for
\* every sequence of logger calls and every stage name the trace has as many
\* start, perception, action, output, completion and event lines as the
\* record has entries of that kind (a condition that replaying the record
\* into the trace's order needs), also for calls about a name that has no
\* started record.
C15_TraceAndRecordAgree ==
    Logging =>
        LET lines  == agent_logger.file_log
            agents == agent_logger.run_data.agents
            IsAny(rec) == TRUE
            HasOutput(rec) == rec.output_data # NoSummary
            IsClosed(rec) == rec.status # "running"
        IN  /\ \A name \in StageNames :
                  /\ CountLines(lines, {"AGENT START"}, name)
                        = Cardinality(RecordsWith(agents, name, IsAny))
                  /\ CountLines(lines, {"PERCEPTION"}, name)
                        = CountEntries(agents, name, "perceptions")
                  /\ CountLines(lines, {"ACTION"}, name)
                        = CountEntries(agents, name, "actions")
                  /\ CountLines(lines, {"OUTPUT"}, name)
                        = Cardinality(RecordsWith(agents, name, HasOutput))
                  /\ CountLines(lines, {"AGENT COMPLETE", "AGENT FAILED"}, name)
                        = Cardinality(RecordsWith(agents, name, IsClosed))
            /\ Cardinality({i \in 1..Len(lines) : lines[i].tag = "EVENT"})
                  = Len(agent_logger.run_data.events)

\* the method whose call writes a line with the given tag first
OpOfTag(tag) ==
    CASE tag = "AGENT START" -> "start"
      [] tag = "PERCEPTION" -> "perceive"
      [] tag = "ACTION" -> "act"
      [] tag = "OUTPUT" -> "output"
      [] tag \in {"AGENT COMPLETE", "AGENT FAILED"} -> "complete"
      [] tag = "EVENT" -> "event"
      [] tag = "RUN COMPLETE" -> "finalize"
      [] OTHER -> "none"

\* the calls a text log tells of, in the order of its lines
CallsInTrace(lines) ==
    LET IsCallLine(line) == OpOfTag(line.tag) # "none"
        told == SelectSeq(lines, IsCallLine)
    IN  [i \in 1..Len(told) |-> LoggerCall(OpOfTag(told[i].tag), told[i].agent)]

\* C16: finalize() is the only operation that writes the structured (JSON)
\* record: before finalize() has run no JSON record of the run exists, while
\* the text trace already tells of every logger call made so far, in call
\* order; and no other call changes the JSON file.
C16_OnlyFinalizeWritesRecord ==
    /\ [](Logging =>
            /\ agent_logger.finalize_calls = 0 => agent_logger.json_log_file = <<>>
            /\ agent_logger.finalize_calls > 0 =>
                  agent_logger.json_log_file = <<agent_logger.run_data>>
            /\ CallsInTrace(agent_logger.file_log) = logger_calls)
    /\ [][(LoggerCalled /\ ~Called("finalize")) =>
            agent_logger'.json_log_file = agent_logger.json_log_file]_vars

\* a logger that has taken MaxCalls calls, an event and a failed completion
\* among them, and has not been finalized: the point where a crash leaves
\* the entries in the trace only
C16_Witness ==
    /\ run_pc = "logging"
    /\ Len(logger_calls) = MaxCalls
    /\ \E k \in 1..Len(logger_calls) : logger_calls[k].op = "event"
    /\ LastCall.op = "complete"
    /\ agent_logger.finalize_calls = 0
    /\ agent_logger.json_log_file = <<>>
    /\ Len(agent_logger.file_log) > 4

(***************************************************************************)
(* Part IV (ConcurrentSpec): two executions of run_pipeline in one process *)
(* (two tasks of one event loop), interleaved at their awaits.  Both use   *)
(* the module's global agent_logger, its session_service and SESSION_ID,   *)
(* and the logs/ directory.  Time passes between steps or does not.        *)
(***************************************************************************)
\* most clock ticks that pass while the two executions run
MaxTicks == 2

\* stages each execution invokes before it finishes
MaxStageSteps == 1

\* SESSION_ID
SESSION_ID == "session_trends"

\* the files of a run id before anything is written
NoFiles == [log |-> <<>>, json |-> <<>>]

\* the lines as the handlers of one logging.Logger write them: every handler
\* attached to the logger writes every line
RECURSIVE Emitted(_, _, _)
Emitted(lines, obj, copies) ==
    IF lines = <<>> THEN <<>>
    ELSE [k \in 1..copies |-> [obj |-> obj, tag |-> Head(lines).tag]]
         \o Emitted(Tail(lines), obj, copies)

\* the trace file after the object obj went from `before` to `after`: the
\* lines it logged go to the file named by its run id
WriteTrace(d, h, obj, before, after) ==
    LET new == SubSeq(after.file_log, Len(before.file_log) + 1, Len(after.file_log))
        f   == Get(d, after.run_id, NoFiles)
    IN  Put(d, after.run_id,
            [f EXCEPT !.log = @ \o Emitted(new, obj, Get(h, after.run_id, 0))])

\* the JSON file after finalize() of the object obj: open(json_log_file, "w")
WriteJson(d, obj, after) ==
    LET f == Get(d, after.run_id, NoFiles)
    IN  Put(d, after.run_id, [f EXCEPT !.json = Append(@, obj)])

ConcurrentInit ==
    /\ LoopIdle({INCREMENT_AMOUNT}, {1})
    /\ PipelineIdle
    /\ ProcIdle

\* what a step of a run_pipeline execution leaves alone
TaskFrame ==
    /\ UNCHANGED <<agent_logger, session_state, stage_idx, run_pc, current_agent,
                   yielded, invoked, clock>>
    /\ UNCHANGED loopVars
    /\ UNCHANGED logger_calls
    /\ UNCHANGED raVars

\* run_pipeline up to its first await: "agent_logger = AgentLogger(...)"
\* rebinds the global, the constructor adds a FileHandler to the logger
\* named by the run id and logs the header, then pipeline_start is logged
BeginRun(r) ==
    /\ task_pc[r].pc = "start"
    /\ LET obj     == Len(logger_objects) + 1
           fresh   == NewAgentLogger(clock)
           h       == Put(handlers, fresh.run_id, Get(handlers, fresh.run_id, 0) + 1)
           started == log_event(fresh, "pipeline_start", clock)
       IN  /\ logger_objects' = Append(logger_objects, started)
           /\ agent_logger_ref' = obj
           /\ own_logger' = [own_logger EXCEPT ![r] = obj]
           /\ handlers' = h
           /\ disk' = WriteTrace(disk, h, obj, [fresh EXCEPT !.file_log = <<>>], started)
           /\ call_targets' = Append(call_targets, [run |-> r, logger |-> obj])
    /\ task_pc' = [task_pc EXCEPT ![r].pc = "created"]
    /\ UNCHANGED sessions
    /\ TaskFrame

\* a logger call made through the global: the object it refers to now takes
\* the call
CallGlobal(r, after) ==
    /\ logger_objects' = [logger_objects EXCEPT ![agent_logger_ref] = after]
    /\ call_targets' = Append(call_targets, [run |-> r, logger |-> agent_logger_ref])
    /\ UNCHANGED <<agent_logger_ref, own_logger, handlers>>

\* run_pipeline after "await session_service.create_session(...)": the
\* session SESSION_ID has been written, session_created is logged
SessionCreated(r) ==
    /\ task_pc[r].pc = "created"
    /\ LET before == logger_objects[agent_logger_ref]
           after  == log_event(before, "session_created", clock)
       IN  /\ CallGlobal(r, after)
           /\ disk' = WriteTrace(disk, handlers, agent_logger_ref, before, after)
    /\ sessions' = Put(sessions, SESSION_ID, Get(sessions, SESSION_ID, {}) \cup {r})
    /\ task_pc' = [task_pc EXCEPT ![r].pc = "running"]
    /\ TaskFrame

\* a stage of the execution runs: it logs its start and its completion
\* through the global agent_logger and writes the session SESSION_ID
StageRuns(r) ==
    /\ task_pc[r].pc = "running"
    /\ task_pc[r].stages < MaxStageSteps
    /\ LET name   == pipeline_agents[task_pc[r].stages + 1]
           before == logger_objects[agent_logger_ref]
           after  == log_agent_complete(log_agent_start(before, name, clock),
                                        name, TRUE, NoError, clock)
       IN  /\ CallGlobal(r, after)
           /\ disk' = WriteTrace(disk, handlers, agent_logger_ref, before, after)
    /\ sessions' = Put(sessions, SESSION_ID, Get(sessions, SESSION_ID, {}) \cup {r})
    /\ task_pc' = [task_pc EXCEPT ![r].stages = @ + 1]
    /\ TaskFrame

\* the event stream has ended: pipeline_complete and finalize(), both
\* through the global
FinishTask(r) ==
    /\ task_pc[r].pc = "running"
    /\ task_pc[r].stages = MaxStageSteps
    /\ LET before == logger_objects[agent_logger_ref]
           after  == finalize(log_event(before, "pipeline_complete", clock), clock)
       IN  /\ CallGlobal(r, after)
           /\ disk' = WriteJson(WriteTrace(disk, handlers, agent_logger_ref,
                                           before, after),
                                agent_logger_ref, after)
    /\ task_pc' = [task_pc EXCEPT ![r].pc = "done"]
    /\ UNCHANGED sessions
    /\ TaskFrame

\* time passes
Tick ==
    /\ clock < MaxTicks
    /\ \E r \in Runs : task_pc[r].pc # "done"
    /\ clock' = clock + 1
    /\ UNCHANGED <<agent_logger, session_state, stage_idx, run_pc, current_agent,
                   yielded, invoked>>
    /\ UNCHANGED loopVars
    /\ UNCHANGED procVars

ConcurrentNext ==
    \/ \E r \in Runs : BeginRun(r)
    \/ \E r \in Runs : SessionCreated(r)
    \/ \E r \in Runs : StageRuns(r)
    \/ \E r \in Runs : FinishTask(r)
    \/ Tick

ConcurrentSpec == ConcurrentInit /\ [][ConcurrentNext]_vars

\* C17: any two runs, also runs created concurrently or within one clock
\* second, get distinct run identifiers and so distinct trace and JSON
\* files: all lines of a trace file come from one logger, and a JSON file
\* is written by one logger only.
C17_DistinctRunIds ==
    /\ \A i, j \in 1..Len(logger_objects) :
          i # j => logger_objects[i].run_id # logger_objects[j].run_id
    /\ \A id \in DOMAIN disk :
          /\ \A m, n \in 1..Len(disk[id].log) :
                disk[id].log[m].obj = disk[id].log[n].obj
          /\ \A m, n \in 1..Len(disk[id].json) :
                disk[id].json[m] = disk[id].json[n]

\* C18: two runs executing concurrently share no mutable state but the
\* storage: every logger call made by run_pipeline or a stage of one run
\* reaches the AgentLogger that run created, and a session is written by
\* the stages of one run only, under every interleaving.
C18_RunsShareNothing ==
    /\ \A k \in 1..Len(call_targets) :
          call_targets[k].logger = own_logger[call_targets[k].run]
    /\ \A id \in DOMAIN sessions : Cardinality(sessions[id]) <= 1

(***************************************************************************)
(* The event stream and the end of run_condition_loop.                     *)
(***************************************************************************)
\* C19: within a run the stage invocations are sequential and in order: the
\* events the caller sees are pass 1 in stage-list order, then pass 2, and
\* so on; for StatusPoller the events of ProgressIncrementer and of
\* ConditionChecker alternate, starting with ProgressIncrementer, and the
\* stage the loop runs next is the one after the stage of the last event.
C19_StagesSequentialInOrder ==
    /\ \A i \in 1..Len(events) :
          /\ events[i].author = (IF i % 2 = 1 THEN "ProgressIncrementer"
                                 ELSE "ConditionChecker")
          /\ events[i].pass = (i + 1) \div 2
    /\ loop_state = "RUNNING" => next_stage = (Len(events) % 2) + 1
    /\ passes = (Len(events) + 1) \div 2

\* the loop is in its third pass
C19_Witness ==
    /\ loop_state = "RUNNING"
    /\ Len(events) = 5
    /\ events[5].author = "ProgressIncrementer"
    /\ events[5].pass = 3

\* what run_condition_loop prints at the end of a run whose events were
\* evs and whose final session state is s, with the final results only
TerminalRecordFinalResultsOnly(evs, s) ==
    [escalation_line |-> FALSE,
     progress        |-> Get(s, "progress", 0),
     iterations      |-> Get(s, "iteration", 0)]

\* what run_condition_loop prints at the end of a run whose events were
\* evs and whose final session state is s: "Loop terminated via escalation"
\* when an event escalates, then the final results
TerminalRecord(evs, s) ==
    [escalation_line |-> \E i \in 1..Len(evs) : evs[i].escalate,
     progress        |-> Get(s, "progress", 0),
     iterations      |-> Get(s, "iteration", 0)]

\* C20: the terminal state of a loop can be read from what the run records
\* at its end: the record of a run that escalated and the record of a run
\* that hit the iteration cap are never the same, since the first has the
\* escalation line and the second has not.
C20_TerminalStatesDistinguishable ==
    Terminal =>
        LET record == TerminalRecord(events, state)
        IN  /\ record.escalation_line <=> loop_state = "ESCALATED"
            /\ ~record.escalation_line <=> loop_state = "EXHAUSTED"

\* a run that hit the cap after several passes, and a run with the same cap
\* that escalated on its last pass would print the same number of iterations
C20_Witness ==
    /\ loop_state = "EXHAUSTED"
    /\ max_iterations >= 2
    /\ TerminalRecord(events, state).iterations = max_iterations
    /\ ~TerminalRecord(events, state).escalation_line

(***************************************************************************)
(* Part V (ConfiguredSpec, SourceConfigSpec): the StatusPoller loop with   *)
(* other settings than the module's: a session created with any state,    *)
(* ProgressIncrementer(increment_amount=...), ConditionChecker(            *)
(* target_progress=...), LoopAgent(max_iterations=...).                    *)
(***************************************************************************)
\* the states a session is created with: none, the seed of main, a partial
\* one and states of a loop under way
SeedChoices ==
    {<<>>, SeedState, [progress |-> 90], [progress |-> 40, iteration |-> 2],
     [progress |-> 100, iteration |-> 0]}

\* the increments of the configured loop
ConfiguredIncrements == {0, INCREMENT_AMOUNT, 50, 100}

\* the targets of the configured checker: below, at and above the clamp
ConfiguredTargets == {50, TARGET_PROGRESS, 150}

\* a loop built with the given settings, before its run starts
LoopIdleFrom(seeds, incs, targets, caps) ==
    /\ seed_state \in seeds
    /\ state = seed_state
    /\ increment_amount \in incs
    /\ target_progress \in targets
    /\ max_iterations \in caps
    /\ times_looped = 0
    /\ next_stage = 1
    /\ loop_state = "RUNNING"
    /\ events = <<>>
    /\ passes = 0

ConfiguredInit ==
    /\ LoopIdleFrom(SeedChoices, ConfiguredIncrements, ConfiguredTargets,
                    MaxIterChoices)
    /\ PipelineIdle
    /\ ProcIdle

ConfiguredSpec == ConfiguredInit /\ [][Next]_vars

FairConfiguredSpec == ConfiguredSpec /\ WF_vars(Next)

(***************************************************************************)
(* Payload summaries.                                                      *)
(***************************************************************************)
\* the summary a payload of the given size must have; size 0 is the None
\* payload, the only payload of Payloads without characters
SummaryOfSize(size) ==
    IF size = 0 THEN [kind |-> "None", prefix |-> 4, total_chars |-> NoData]
    ELSE IF size > 500
         THEN [kind |-> "str", prefix |-> 500, total_chars |-> size]
         ELSE [kind |-> "str", prefix |-> size, total_chars |-> NoData]

\* the size the last "[OUTPUT]" line about a name reports, among the lines
\* after the name's last start; NoData when there is none
LastOutputSize(lines, agent_name) ==
    LET starts == {i \in 1..Len(lines) :
                      lines[i].tag = "AGENT START" /\ lines[i].agent = agent_name}
        from   == CHOOSE i \in starts : \A j \in starts : j <= i
        outs   == {i \in 1..Len(lines) :
                      /\ i > from
                      /\ lines[i].tag = "OUTPUT" /\ lines[i].agent = agent_name}
    IN  IF outs = {} THEN NoData
        ELSE lines[CHOOSE i \in outs : \A j \in outs : j <= i].bytes

\* C21: summaries are size-bounded without losing the payload: a payload
\* longer than 500 characters is stored as its first 500 characters and a
\* marker with the original length, a payload of at most 500 characters is
\* stored whole, None is stored as 'None', and no payload is dropped in full.
C21_SummariesBoundedNotDropped ==
    Logging =>
        LET agents == agent_logger.run_data.agents
        IN  /\ \A i \in 1..Len(agents) :
                  \A k \in 1..Len(agents[i].perceptions) :
                      LET p == agents[i].perceptions[k]
                      IN  /\ p.data_summary = SummaryOfSize(p.data_size)
                          /\ p.data_summary.prefix > 0
            /\ \A name \in StageNames :
                  LET i == FindAgent(agents, name)
                  IN  i # 0 =>
                        LET size == LastOutputSize(agent_logger.file_log, name)
                        IN  agents[i].output_data =
                               (IF size = NoData THEN NoSummary
                                ELSE SummaryOfSize(size))

\* one stage has perceived a payload one character over the limit, cut to
\* the limit, and has put out a payload of exactly the limit, kept whole
C21_Witness ==
    /\ Logging
    /\ \E i \in 1..Len(agent_logger.run_data.agents) :
          LET rec == agent_logger.run_data.agents[i]
          IN  /\ Len(rec.perceptions) = 1
              /\ rec.perceptions[1].data_size = SummaryLimit + 1
              /\ rec.perceptions[1].data_summary.prefix = SummaryLimit
              /\ rec.perceptions[1].data_summary.total_chars = SummaryLimit + 1
              /\ rec.output_data.prefix = SummaryLimit
              /\ rec.output_data.total_chars = NoData

(***************************************************************************)
(* The stages of the configured loop.                                      *)
(***************************************************************************)
\* C22: a read of an absent key returns the caller's default and does not
\* fail: run on an empty state the first pass of ProgressIncrementer and
\* ConditionChecker does what it does on the seed {progress: 0,
\* iteration: 0}: the same events, and progress = min(increment, 100) and
\* iteration = 1 in the state.
C22_AbsentKeysReadAsDefaults ==
    (seed_state = <<>> /\ Len(events) >= 1) =>
        LET inc    == increment_amount
            seeded == IncrementerState(SeedState, inc)
        IN  /\ events[1] = IncrementerEvent(SeedState, inc, 1)
            /\ events[1].progress = Min(inc, 100) /\ events[1].iteration = 1
            /\ Len(events) <= 2 =>
                  /\ state = seeded
                  /\ state = [progress |-> Min(inc, 100), iteration |-> 1]
            /\ Len(events) >= 2 =>
                  events[2] = CheckerEvent(seeded, target_progress, 1)

\* the first pass has run on an empty state
C22_Witness ==
    /\ seed_state = <<>>
    /\ Len(events) = 2
    /\ increment_amount = INCREMENT_AMOUNT
    /\ state = [progress |-> INCREMENT_AMOUNT, iteration |-> 1]

\* C23: ConditionChecker emits one event per invocation, with escalate set
\* exactly when the progress it reads from the state is >= target_progress,
\* and leaves the state as it was; ProgressIncrementer emits one event per
\* invocation and never one with escalate set.
C23_CheckerReadsOnly ==
    [][LET ev == events'[Len(events')]
       IN  /\ Len(events') = Len(events) + 1
           /\ SubSeq(events', 1, Len(events)) = events
           /\ ev.author = "ConditionChecker" =>
                 /\ state' = state
                 /\ ev.escalate <=> (Get(state, "progress", 0) >= target_progress)
           /\ ev.author = "ProgressIncrementer" => ~ev.escalate]_vars

\* the checker has escalated on a target below the clamp, and on an earlier
\* pass it has not
C23_Witness ==
    /\ target_progress = 50
    /\ Len(events) = 6
    /\ ~events[4].escalate /\ events[4].author = "ConditionChecker"
    /\ events[6].escalate /\ events[6].author = "ConditionChecker"
    /\ events[6].progress >= target_progress


\* ---------------------------------------------------------------------------
\* C24: a custom stage that completed with failure has written nothing to the
\* session state: after a failed LiveTrendsFetcher neither "live_trends_data"
\* nor "trends_text_list" is set, and after a failed TrendSourcesCollector
\* none of "trend_sources", "sources_file", "sources_json_file" is set.
StageFailed(agent_name) ==
    \E i \in 1..Len(invoked) :
        invoked[i].stage = agent_name /\ invoked[i].outcome \in FaultOutcomes

C24_FailedStageWritesNothing ==
    /\ StageFailed("LiveTrendsFetcher") =>
           {"live_trends_data", "trends_text_list"} \cap DOMAIN session_state = {}
    /\ StageFailed("TrendSourcesCollector") =>
           {"trend_sources", "sources_file", "sources_json_file"}
               \cap DOMAIN session_state = {}

\* the browser failed to close after the urls were fetched, the stage was
\* recorded as failed, and the stages after it have written their outputs
C24_Witness ==
    /\ run_pc = "complete"
    /\ \E i \in 1..Len(invoked) :
          invoked[i].stage = "LiveTrendsFetcher" /\ invoked[i].outcome = "quit_error"
    /\ Cardinality(LinesOf({"AGENT FAILED"}, "LiveTrendsFetcher")) = 1
    /\ Cardinality(LinesOf({"ACTION"}, "LiveTrendsFetcher")) > 1
    /\ DOMAIN session_state # {}

\* ---------------------------------------------------------------------------
\* C25: in every reachable state of the Trace Recorder
\* successful_agents + failed_agents <= total_agents, and the sum equals the
\* number of stage records whose status is no longer "running", whatever
\* calls were made: several completions for one start, or a completion that
\* names a stage that was never started, included.
ClosedRecords(agents) ==
    {i \in 1..Len(agents) : agents[i].status # "running"}

C25_CompletionsCountClosedRecords ==
    Logging =>
        LET m == agent_logger.run_data.metrics
        IN  /\ m.successful_agents + m.failed_agents <= m.total_agents
            /\ m.successful_agents + m.failed_agents
                   = Cardinality(ClosedRecords(agent_logger.run_data.agents))

\* ---------------------------------------------------------------------------
\* C26: run from a state with 0 <= progress <= 100 and an increment >= 0,
\* progress stays within 0..100 and never decreases, and iteration grows by
\* exactly 1 per pass of ProgressIncrementer: after k passes iteration is the
\* seed's iteration plus k.
C26_ProgressBoundedIterationCounts ==
    /\ [](/\ Get(state, "progress", 0) \in 0..100
          /\ Get(state, "iteration", 0) = Get(seed_state, "iteration", 0) + passes)
    /\ [][/\ Get(state', "progress", 0) >= Get(state, "progress", 0)
          /\ Get(state', "iteration", 0) - Get(state, "iteration", 0)
                 = passes' - passes]_vars

\* two passes over a seed that starts at progress 40, iteration 2
C26_Witness ==
    /\ seed_state = [progress |-> 40, iteration |-> 2]
    /\ increment_amount = INCREMENT_AMOUNT
    /\ passes = 2
    /\ state = [progress |-> 40 + 2 * INCREMENT_AMOUNT, iteration |-> 4]

(***************************************************************************)
(* The loop as the module builds it, for every INCREMENT_AMOUNT.           *)
(***************************************************************************)
\* the values of INCREMENT_AMOUNT considered
SourceIncrements == 1..TARGET_PROGRESS

\* a loop whose cap has no buffer
SourceMaxIterationsNoBuffer(inc) == TARGET_PROGRESS \div inc

\* max_iterations of status_poller: TARGET_PROGRESS // INCREMENT_AMOUNT + 2
SourceMaxIterations(inc) == TARGET_PROGRESS \div inc + 2

\* status_poller and the session main() seeds, with the module constant
\* INCREMENT_AMOUNT set to any value of SourceIncrements
SourceConfigInit ==
    /\ seed_state = SeedState
    /\ state = seed_state
    /\ increment_amount \in SourceIncrements
    /\ target_progress = TARGET_PROGRESS
    /\ max_iterations = SourceMaxIterations(increment_amount)
    /\ times_looped = 0
    /\ next_stage = 1
    /\ loop_state = "RUNNING"
    /\ events = <<>>
    /\ passes = 0
    /\ PipelineIdle
    /\ ProcIdle

SourceConfigSpec == SourceConfigInit /\ [][Next]_vars

\* ceil(a / b) for positive b
CeilDiv(a, b) == (a + b - 1) \div b

\* C27: with max_iterations = TARGET_PROGRESS // INCREMENT_AMOUNT + 2, target
\* 100 and seed progress 0, for every INCREMENT_AMOUNT in 1..100 the loop is
\* never EXHAUSTED: the only escalate event is the checker's on pass
\* ceil(100 / INCREMENT_AMOUNT), and the loop ends ESCALATED on that pass with
\* progress = 100.
C27_SourceCapNeverExhausts ==
    LET last == CeilDiv(TARGET_PROGRESS, increment_amount)
    IN  /\ loop_state # "EXHAUSTED"
        /\ passes <= last
        /\ last <= max_iterations
        /\ \A i \in 1..Len(events) :
              events[i].escalate <=>
                  (events[i].author = "ConditionChecker" /\ events[i].pass = last)
        /\ loop_state = "ESCALATED" =>
              /\ passes = last
              /\ Get(state, "progress", 0) = 100
              /\ Get(state, "iteration", 0) = last

\* the loop built with INCREMENT_AMOUNT = 17 and cap 7 has ended on pass 6
C27_Witness ==
    /\ increment_amount = INCREMENT_AMOUNT
    /\ max_iterations = 7
    /\ loop_state = "ESCALATED"
    /\ passes = 6
    /\ state = [progress |-> 100, iteration |-> 6]

\* ---------------------------------------------------------------------------
\* the cap allows the passes that the seed's progress needs to reach the
\* target in steps of the increment
EnoughPasses ==
    Get(seed_state, "progress", 0) + max_iterations * increment_amount
        >= target_progress

\* C28: for every configured target_progress and every positive
\* increment_amount, if enough passes are allowed then progress eventually
\* reaches target_progress and ConditionChecker escalates: the clamp never
\* holds progress below the checker's target.
C28_ProgressReachesTarget ==
    (increment_amount > 0 /\ EnoughPasses) =>
        <>(/\ Get(state, "progress", 0) >= target_progress
           /\ loop_state = "ESCALATED")

(***************************************************************************)
(* The research assistant: ResearchAgent and its chat history.  A query is  *)
(* a string; the output of a result and the message of an exception are    *)
(* sequences of tokens.                                                    *)
(***************************************************************************)
MaxAgentCalls == 3

\* the queries a caller sends
Queries == {"q1", "q2"}

\* what agent_executor.invoke does with a query: it returns a result with
\* an output, or a result without one, or it raises
InvokeOutcomes == {"ok", "no_output", "raises"}

\* the dict agent_executor.invoke returns, for the outcomes that return
InvokeResult(outcome) ==
    IF outcome = "ok"
    THEN [output |-> <<"answer">>, intermediate_steps |-> <<"step">>]
    ELSE [intermediate_steps |-> <<"step">>]

\* the dict the except branch of run returns: f"I encountered an error: {e}"
ErrorResult(msg) ==
    [output |-> <<"I encountered an error: ">> \o msg,
     intermediate_steps |-> <<>>]

\* what ResearchAgent.run returns
RunReturn(outcome, msg) ==
    IF outcome = "raises" THEN ErrorResult(msg) ELSE InvokeResult(outcome)

\* the entry run appends: the query and result.get("output", "")
HistoryEntry(query, result) ==
    [query |-> query, response |-> Get(result, "output", <<>>)]

\* a run that stores the query before it executes it
RunHistoryStoringFirst(h, query, outcome) ==
    Append(h, HistoryEntry(query, InvokeResult("ok")))

\* the chat_history list after run: the append follows invoke in the try
\* block, so it is skipped when invoke raises
RunHistory(h, query, outcome) ==
    IF outcome = "raises" THEN h
    ELSE Append(h, HistoryEntry(query, InvokeResult(outcome)))

\* the list object self.chat_history refers to
ChatHistory == chat_lists[chat_history]

ResearchFrame ==
    /\ UNCHANGED loopVars
    /\ UNCHANGED pipeVars
    /\ UNCHANGED <<logger_calls, concVars>>

\* agent.run(query), called from one thread (test_agent's loop)
AgentRun ==
    /\ Len(agent_calls) < MaxAgentCalls
    /\ \E query \in Queries, outcome \in InvokeOutcomes, msg \in Messages :
          /\ outcome # "raises" => msg = <<>>
          /\ chat_lists' = [chat_lists EXCEPT
                               ![chat_history] = RunHistory(@, query, outcome)]
          /\ run_result' = RunReturn(outcome, msg)
          /\ agent_calls' = Append(agent_calls,
                                   [op |-> "run", query |-> query,
                                    outcome |-> outcome, error |-> msg])
    /\ UNCHANGED <<chat_history, worker, input_enabled, clear_pending>>
    /\ ResearchFrame

\* agent.clear_memory(): self.chat_history = []
AgentClearMemory ==
    /\ Len(agent_calls) < MaxAgentCalls
    /\ chat_lists' = Append(chat_lists, <<>>)
    /\ chat_history' = Len(chat_lists) + 1
    /\ agent_calls' = Append(agent_calls,
                             [op |-> "clear_memory", query |-> "",
                              outcome |-> "ok", error |-> <<>>])
    /\ UNCHANGED <<run_result, worker, input_enabled, clear_pending>>
    /\ ResearchFrame

AgentNext == AgentRun \/ AgentClearMemory

\* the process once ResearchAgent is constructed; the other programs idle
AgentInit ==
    /\ LoopIdle({INCREMENT_AMOUNT}, {SourceMaxIterations(INCREMENT_AMOUNT)})
    /\ PipelineIdle
    /\ ProcIdle

AgentSpec == AgentInit /\ [][AgentNext]_vars

\* the successful queries since the last clear_memory, in call order, each
\* with the response it got
RECURSIVE SuccessfulSinceClear(_)
SuccessfulSinceClear(calls) ==
    IF calls = <<>> THEN <<>>
    ELSE LET c    == calls[Len(calls)]
             rest == SuccessfulSinceClear(SubSeq(calls, 1, Len(calls) - 1))
         IN  IF c.op = "clear_memory" THEN <<>>
             ELSE IF c.outcome = "raises" THEN rest
             ELSE Append(rest, [query    |-> c.query,
                                response |-> IF c.outcome = "ok"
                                             THEN <<"answer">> ELSE <<>>])

\* C29: ResearchAgent.run never raises: when executing the query fails it
\* returns a dict whose output carries the error message and whose
\* intermediate_steps is empty, and leaves chat_history as it was; when it
\* succeeds it returns the executor's result and appends exactly one
\* {query, response} entry; so after any sequence of run and clear_memory
\* calls chat_history holds exactly the successful queries since the last
\* clear_memory, in order.
C29_HistoryHoldsSuccessfulQueries ==
    /\ ChatHistory = SuccessfulSinceClear(agent_calls)
    /\ agent_calls # <<>> =>
          LET c == agent_calls[Len(agent_calls)]
          IN  /\ (c.op = "run" /\ c.outcome = "raises") =>
                    /\ "output" \in DOMAIN run_result
                    /\ run_result.output = <<"I encountered an error: ">> \o c.error
                    /\ run_result.intermediate_steps = <<>>
              /\ (c.op = "run" /\ c.outcome # "raises") =>
                    /\ run_result = InvokeResult(c.outcome)
                    /\ ChatHistory # <<>>
                    /\ ChatHistory[Len(ChatHistory)].query = c.query
              /\ c.op = "clear_memory" => ChatHistory = <<>>

\* a query answered, the memory cleared, then one query that failed and one
\* that was answered
C29_Witness ==
    /\ Len(agent_calls) = MaxAgentCalls
    /\ \E i \in 1..Len(agent_calls) : agent_calls[i].op = "clear_memory"
    /\ \E i \in 1..Len(agent_calls) :
          agent_calls[i].op = "run" /\ agent_calls[i].outcome = "raises"
    /\ agent_calls[Len(agent_calls)].outcome = "ok"
    /\ agent_calls[Len(agent_calls)].op = "run"
    /\ Len(ChatHistory) = 1

(***************************************************************************)
(* The research assistant's window: the GUI thread's handlers and the      *)
(* AgentWorker thread that runs agent.run(query) beside them.              *)
(***************************************************************************)
MaxSends == 2
MaxClears == 2

\* what the input field holds when Send is pressed, stripped
InputTexts == Queries \cup {""}

\* the replies to the "Clear Chat" question
Replies == {"Yes", "No"}

\* the AgentWorker objects started so far: one per history entry or error
SendsSoFar == Len(agent_calls)

\* send_message: nothing for an empty query; else the input is disabled
\* and a new AgentWorker is started for the query.  With the input disabled
\* neither returnPressed nor the Send button calls it.
SendMessage ==
    /\ input_enabled
    /\ SendsSoFar < MaxSends
    /\ \E text \in InputTexts :
          IF text = ""
          THEN UNCHANGED raVars
          ELSE /\ input_enabled' = FALSE
               /\ worker' = [pc |-> "invoking", query |-> text, ref |-> 0,
                             result |-> NoResult]
               /\ agent_calls' = Append(agent_calls,
                                        [op |-> "run", query |-> text,
                                         outcome |-> "running", error |-> <<>>])
               /\ clear_pending' = FALSE
               /\ UNCHANGED <<chat_lists, chat_history, run_result>>
    /\ ResearchFrame

\* the worker thread, in agent.run: agent_executor.invoke returns or raises;
\* when it raises, run returns the error dict and the worker emits finished
WorkerInvoke ==
    /\ worker.pc = "invoking"
    /\ \E outcome \in InvokeOutcomes, msg \in Messages :
          /\ outcome # "raises" => msg = <<>>
          /\ worker' = [worker EXCEPT
                           !.pc = IF outcome = "raises" THEN "emitted" ELSE "invoked",
                           !.result = RunReturn(outcome, msg)]
          /\ agent_calls' = [agent_calls EXCEPT
                                ![Len(agent_calls)].outcome = outcome,
                                ![Len(agent_calls)].error = msg]
          /\ run_result' = IF outcome = "raises" THEN RunReturn(outcome, msg)
                           ELSE run_result
    /\ UNCHANGED <<chat_lists, chat_history, input_enabled, clear_pending>>
    /\ ResearchFrame

\* the worker thread evaluates self.chat_history of "self.chat_history.append"
WorkerLoadHistory ==
    /\ worker.pc = "invoked"
    /\ worker' = [worker EXCEPT !.pc = "loaded", !.ref = chat_history]
    /\ UNCHANGED <<chat_lists, chat_history, agent_calls, run_result,
                   input_enabled, clear_pending>>
    /\ ResearchFrame

\* the worker thread appends the entry to the list it loaded, run returns
\* the result and the worker emits finished
WorkerAppend ==
    /\ worker.pc = "loaded"
    /\ chat_lists' = [chat_lists EXCEPT
                         ![worker.ref] = Append(@, HistoryEntry(worker.query,
                                                                worker.result))]
    /\ worker' = [worker EXCEPT !.pc = "emitted"]
    /\ run_result' = worker.result
    /\ UNCHANGED <<chat_history, agent_calls, input_enabled, clear_pending>>
    /\ ResearchFrame

\* on_agent_finished, in the GUI thread: the input is enabled again
OnAgentFinished ==
    /\ worker.pc = "emitted"
    /\ worker' = [worker EXCEPT !.pc = "finished"]
    /\ input_enabled' = TRUE
    /\ UNCHANGED <<chat_lists, chat_history, agent_calls, run_result,
                   clear_pending>>
    /\ ResearchFrame

\* clear_chat, in the GUI thread: the Clear button is never disabled, and
\* on Yes agent.clear_memory() binds self.chat_history to a new empty list,
\* whatever the worker is doing
ClearChat ==
    /\ Len(chat_lists) <= MaxClears
    /\ \E reply \in Replies :
          IF reply = "Yes"
          THEN /\ chat_lists' = Append(chat_lists, <<>>)
               /\ chat_history' = Len(chat_lists')
               /\ clear_pending' = TRUE
               /\ UNCHANGED <<agent_calls, run_result, worker, input_enabled>>
          ELSE UNCHANGED raVars
    /\ ResearchFrame

GuiNext ==
    \/ SendMessage
    \/ WorkerInvoke
    \/ WorkerLoadHistory
    \/ WorkerAppend
    \/ OnAgentFinished
    \/ ClearChat

GuiSpec == AgentInit /\ [][GuiNext]_vars

\* C30: after the user confirms Clear, the agent's conversation history is
\* empty and stays empty until the next query is sent, under every
\* interleaving with the AgentWorker thread, a Clear confirmed while a query
\* is still running included.
C30_ClearedHistoryStaysEmpty ==
    clear_pending => ChatHistory = <<>>

====
